---------------------------- MODULE Spec2Model ----------------------------
(***************************************************************************)
(* Model of src/app.py (LATAM Supply Chain Watchdog): the rules-based      *)
(* invoice checks (check_tax_id, check_incoterm, check_hs_codes,           *)
(* rules_based_validation), the call to the contextual reviewer            *)
(* (ai_deep_audit) and the "Run Full Audit" handler that displays the      *)
(* findings, derives the verdict and renders the downloadable report.      *)
(*                                                                         *)
(* Text is a sequence of characters, so that the regular expressions,      *)
(* str.upper and the substring tests are computed character by character.  *)
(* A character is a one-character string; a character that a string of a   *)
(* module cannot hold is written by the name of its code point             *)
(* ("U+00A0").  The alphabet is ASCII, every character that \s matches,    *)
(* every character whose upper case holds an ASCII letter, and, standing   *)
(* for the digits and letters beyond ASCII, the Arabic-Indic digits and    *)
(* the letters of OtherLetters; other characters have no name here.        *)
(* Messages and report lines are strings.  The three glyphs of the         *)
(* messages are written as ASCII marks (OK_MARK, X_MARK, WARN_MARK).       *)
(*                                                                         *)
(* COUNTRY_RULES: the sixth entry of the table (src/app.py:45-50) lacks a  *)
(* closing quote and a closing brace, and the file as written does not     *)
(* compile.  The model is of the functions and the handler as written,     *)
(* over the table of the five entries that parse; "United States of        *)
(* America" is not a key of it.                                            *)
(***************************************************************************)
EXTENDS Integers, Sequences, FiniteSets, TLC

VARIABLES
    pc,            \* position of the script run ("done": the button is shown)
    text,          \* extracted document text (sequence of characters)
    country,       \* selected country key
    document,      \* uploaded_file.name
    rules_results, \* the dict returned by rules_based_validation, or NoResults
    raised,        \* the exception that ended the run, or "None"
    screen,        \* what the audit handler has written to the page, in order
    prompt,        \* what was submitted to the reviewer, or NoPrompt
    ai_report,     \* the name ai_report: a reply, or Unbound
    ai_failed,     \* TRUE when the except branch of stage 2 was entered
    verdict,       \* the summary banner shown, or NoVerdict
    generated,     \* the clock reading taken by the report, or -1
    report_text,   \* the lines of the rendered report, or NoReport
    file_name,     \* the file name of the download, or ""
    rendered       \* the previous rendered report with its inputs (history)

vars == <<pc, text, country, document, rules_results, raised, screen, prompt,
          ai_report, ai_failed, verdict, generated, report_text, file_name,
          rendered>>

----------------------------------------------------------------------------
(* Bounds of the model *)

MaxTokens == 2       \* a document is at most this many tokens long
MaxClock == 3        \* clock readings are 0..MaxClock

----------------------------------------------------------------------------
(* Characters and character classes of Python's re (str patterns) *)

\* 0-9 in a bracket
AsciiDigit == {"0", "1", "2", "3", "4", "5", "6", "7", "8", "9"}

\* the Arabic-Indic digits, standing for the decimal digits beyond ASCII
ArabicIndicDigit == {"U+0660", "U+0661", "U+0662", "U+0663", "U+0664",
                     "U+0665", "U+0666", "U+0667", "U+0668", "U+0669"}

\* \d
Digit == AsciiDigit \cup ArabicIndicDigit

UpperAZ == {"A", "B", "C", "D", "E", "F", "G", "H", "I", "J", "K", "L", "M",
            "N", "O", "P", "Q", "R", "S", "T", "U", "V", "W", "X", "Y", "Z"}

LowerAZ == {"a", "b", "c", "d", "e", "f", "g", "h", "i", "j", "k", "l", "m",
            "n", "o", "p", "q", "r", "s", "t", "u", "v", "w", "x", "y", "z"}

\* the letters whose upper case holds an ASCII letter
FoldedLetters == {"U+00DF", "U+0131", "U+0149", "U+017F", "U+01F0", "U+1E96",
                  "U+1E97", "U+1E98", "U+1E99", "U+1E9A", "U+FB00", "U+FB01",
                  "U+FB02", "U+FB03", "U+FB04", "U+FB05", "U+FB06"}

\* n and N with tilde, and the two modifier letters an upper case holds,
\* standing for the letters beyond ASCII
OtherLetters == {"U+00F1", "U+00D1", "U+02BC", "U+02BE"}

\* \w
WordChar == Digit \cup UpperAZ \cup LowerAZ \cup {"_"}
            \cup FoldedLetters \cup OtherLetters

\* \s
Space == {" ", "\t", "\n", "\r", "\f", "U+000B", "U+001C", "U+001D", "U+001E",
          "U+001F", "U+0085", "U+00A0", "U+1680", "U+2000", "U+2001",
          "U+2002", "U+2003", "U+2004", "U+2005", "U+2006", "U+2007",
          "U+2008", "U+2009", "U+200A", "U+2028", "U+2029", "U+202F",
          "U+205F", "U+3000"}

\* str.upper() of one character (one to three characters)
UpperChar(c) ==
    CASE c = "a" -> <<"A">> [] c = "b" -> <<"B">> [] c = "c" -> <<"C">>
      [] c = "d" -> <<"D">> [] c = "e" -> <<"E">> [] c = "f" -> <<"F">>
      [] c = "g" -> <<"G">> [] c = "h" -> <<"H">> [] c = "i" -> <<"I">>
      [] c = "j" -> <<"J">> [] c = "k" -> <<"K">> [] c = "l" -> <<"L">>
      [] c = "m" -> <<"M">> [] c = "n" -> <<"N">> [] c = "o" -> <<"O">>
      [] c = "p" -> <<"P">> [] c = "q" -> <<"Q">> [] c = "r" -> <<"R">>
      [] c = "s" -> <<"S">> [] c = "t" -> <<"T">> [] c = "u" -> <<"U">>
      [] c = "v" -> <<"V">> [] c = "w" -> <<"W">> [] c = "x" -> <<"X">>
      [] c = "y" -> <<"Y">> [] c = "z" -> <<"Z">>
      [] c = "U+00F1" -> <<"U+00D1">>
      [] c = "U+00DF" -> <<"S", "S">>
      [] c = "U+0131" -> <<"I">>
      [] c = "U+0149" -> <<"U+02BC", "N">>
      [] c = "U+017F" -> <<"S">>
      [] c = "U+01F0" -> <<"J", "U+030C">>
      [] c = "U+1E96" -> <<"H", "U+0331">>
      [] c = "U+1E97" -> <<"T", "U+0308">>
      [] c = "U+1E98" -> <<"W", "U+030A">>
      [] c = "U+1E99" -> <<"Y", "U+030A">>
      [] c = "U+1E9A" -> <<"A", "U+02BE">>
      [] c = "U+FB00" -> <<"F", "F">>
      [] c = "U+FB01" -> <<"F", "I">>
      [] c = "U+FB02" -> <<"F", "L">>
      [] c = "U+FB03" -> <<"F", "F", "I">>
      [] c = "U+FB04" -> <<"F", "F", "L">>
      [] c = "U+FB05" -> <<"S", "T">>
      [] c = "U+FB06" -> <<"S", "T">>
      [] OTHER -> <<c>>

\* the concatenation of the sequences q[from..Len(q)]
RECURSIVE Flatten(_, _)
Flatten(q, from) ==
    IF from > Len(q) THEN <<>> ELSE q[from] \o Flatten(q, from + 1)

\* text.upper()
upper(s) ==
    IF \A i \in 1..Len(s) : Len(UpperChar(s[i])) = 1
    THEN [i \in 1..Len(s) |-> UpperChar(s[i])[1]]
    ELSE Flatten([i \in 1..Len(s) |-> UpperChar(s[i])], 1)

\* the str of a character sequence
RECURSIVE Str(_)
Str(s) == IF s = <<>> THEN "" ELSE Head(s) \o Str(Tail(s))

\* chr(10).join(items)
RECURSIVE join(_)
join(items) ==
    IF items = <<>> THEN ""
    ELSE IF Len(items) = 1 THEN items[1]
    ELSE items[1] \o "\n" \o join(Tail(items))

\* term in s
Contains(s, term) ==
    \E i \in 1..(Len(s) - Len(term) + 1) :
        \A j \in 1..Len(term) : s[i + j - 1] = term[j]

----------------------------------------------------------------------------
(* A backtracking matcher for the patterns the program uses.  A pattern is *)
(* a sequence of alternatives, an alternative a sequence of items: a word  *)
(* boundary, or a character class repeated lo..hi times (greedy).          *)

WB == [k |-> "b", cls |-> {}, lo |-> 0, hi |-> 0]
Rep(cls, lo, hi) == [k |-> "c", cls |-> cls, lo |-> lo, hi |-> hi]

\* \b at the position before s[pos]
Boundary(s, pos) ==
    LET before == pos > 1 /\ s[pos - 1] \in WordChar
        after == pos <= Len(s) /\ s[pos] \in WordChar
    IN before # after

\* how many characters from s[pos] on are in cls, at most hi
Run(s, pos, cls, hi) ==
    LET ok(n) == \A j \in 0..(n - 1) :
                    pos + j <= Len(s) /\ s[pos + j] \in cls
    IN CHOOSE n \in 0..hi : ok(n) /\ (n = hi \/ ~ok(n + 1))

RECURSIVE MatchItems(_, _, _, _), TryCount(_, _, _, _, _)
\* position after the match of items[k..] at pos, or -1
MatchItems(items, k, s, pos) ==
    IF k > Len(items) THEN pos
    ELSE IF items[k].k = "b"
         THEN IF Boundary(s, pos) THEN MatchItems(items, k + 1, s, pos)
              ELSE -1
         ELSE TryCount(items, k, s, pos,
                       Run(s, pos, items[k].cls, items[k].hi))

TryCount(items, k, s, pos, n) ==
    IF n < items[k].lo THEN -1
    ELSE LET r == MatchItems(items, k + 1, s, pos + n)
         IN IF r # -1 THEN r ELSE TryCount(items, k, s, pos, n - 1)

RECURSIVE MatchAlt(_, _, _, _)
\* alternatives are tried left to right
MatchAlt(alts, a, s, pos) ==
    IF a > Len(alts) THEN -1
    ELSE LET r == MatchItems(alts[a], 1, s, pos)
         IN IF r # -1 THEN r ELSE MatchAlt(alts, a + 1, s, pos)

RECURSIVE FindFrom(_, _, _)
\* the non-overlapping matches from position from on, leftmost first
FindFrom(alts, s, from) ==
    LET starts == {i \in from..(Len(s) + 1) : MatchAlt(alts, 1, s, i) # -1}
    IN IF starts = {} THEN <<>>
       ELSE LET b == CHOOSE i \in starts : \A j \in starts : i <= j
                e == MatchAlt(alts, 1, s, b)
            IN <<SubSeq(s, b, e - 1)>>
               \o FindFrom(alts, s, IF e > b THEN e ELSE b + 1)

----------------------------------------------------------------------------
(* VALIDATION RULES BY COUNTRY *)

COUNTRY_RULES ==
    ("Chile" :>
        [tax_id_pattern |-> "\\b\\d{1,2}\\.\\d{3}\\.\\d{3}-[\\dkK]\\b",
         tax_id_name |-> "RUT",
         required_fields |-> <<"RUT", "Incoterm", "HS Code">>,
         currency |-> "CLP"])
    @@ ("Brazil" :>
        [tax_id_pattern |-> "\\b\\d{2}\\.\\d{3}\\.\\d{3}/\\d{4}-\\d{2}\\b",
         tax_id_name |-> "CNPJ",
         required_fields |-> <<"CNPJ", "NCM", "Incoterm">>,
         currency |-> "BRL"])
    @@ ("Argentina" :>
        [tax_id_pattern |-> "\\b\\d{2}-\\d{8}-\\d\\b",
         tax_id_name |-> "CUIT",
         required_fields |-> <<"CUIT", "Incoterm", "NCM">>,
         currency |-> "ARS"])
    @@ ("Spain" :>
        [tax_id_pattern |-> "\\b[A-Z]\\d{7}[A-Z0-9]\\b|\\b\\d{8}[A-Z]\\b",
         tax_id_name |-> "NIF/CIF",
         required_fields |-> <<"NIF", "Incoterm", "HS Code">>,
         currency |-> "EUR"])
    @@ ("Portugal" :>
        [tax_id_pattern |-> "\\b\\d{9}\\b",
         tax_id_name |-> "NIF",
         required_fields |-> <<"NIF", "Incoterm", "HS Code">>,
         currency |-> "EUR"])

hs_pattern == "\\b\\d{4}[\\.\\s]?\\d{2}[\\.\\s]?\\d{0,4}\\b"

\* re.compile: the pattern a source string denotes
Compile(pattern) ==
    CASE pattern = "\\b\\d{1,2}\\.\\d{3}\\.\\d{3}-[\\dkK]\\b" ->
            << <<WB, Rep(Digit, 1, 2), Rep({"."}, 1, 1), Rep(Digit, 3, 3),
                 Rep({"."}, 1, 1), Rep(Digit, 3, 3), Rep({"-"}, 1, 1),
                 Rep(Digit \cup {"k", "K"}, 1, 1), WB>> >>
      [] pattern = "\\b\\d{2}\\.\\d{3}\\.\\d{3}/\\d{4}-\\d{2}\\b" ->
            << <<WB, Rep(Digit, 2, 2), Rep({"."}, 1, 1), Rep(Digit, 3, 3),
                 Rep({"."}, 1, 1), Rep(Digit, 3, 3), Rep({"/"}, 1, 1),
                 Rep(Digit, 4, 4), Rep({"-"}, 1, 1), Rep(Digit, 2, 2), WB>> >>
      [] pattern = "\\b\\d{2}-\\d{8}-\\d\\b" ->
            << <<WB, Rep(Digit, 2, 2), Rep({"-"}, 1, 1), Rep(Digit, 8, 8),
                 Rep({"-"}, 1, 1), Rep(Digit, 1, 1), WB>> >>
      [] pattern = "\\b[A-Z]\\d{7}[A-Z0-9]\\b|\\b\\d{8}[A-Z]\\b" ->
            << <<WB, Rep(UpperAZ, 1, 1), Rep(Digit, 7, 7),
                 Rep(UpperAZ \cup AsciiDigit, 1, 1), WB>>,
               <<WB, Rep(Digit, 8, 8), Rep(UpperAZ, 1, 1), WB>> >>
      [] pattern = "\\b\\d{9}\\b" ->
            << <<WB, Rep(Digit, 9, 9), WB>> >>
      [] pattern = "\\b\\d{4}[\\.\\s]?\\d{2}[\\.\\s]?\\d{0,4}\\b" ->
            << <<WB, Rep(Digit, 4, 4), Rep({"."} \cup Space, 0, 1),
                 Rep(Digit, 2, 2), Rep({"."} \cup Space, 0, 1),
                 Rep(Digit, 0, 4), WB>> >>

\* re.findall(pattern, text)
findall(pattern, s) == FindFrom(Compile(pattern), s, 1)

\* Valid Incoterms (2020)
VALID_INCOTERMS ==
    << <<"E", "X", "W">>, <<"F", "C", "A">>, <<"C", "P", "T">>,
       <<"C", "I", "P">>, <<"D", "A", "P">>, <<"D", "P", "U">>,
       <<"D", "D", "P">>, <<"F", "A", "S">>, <<"F", "O", "B">>,
       <<"C", "F", "R">>, <<"C", "I", "F">> >>

\* ASCII marks for the glyphs of the messages
OK_MARK == "[OK]"
X_MARK == "[X]"
WARN_MARK == "[!]"

None == "None"

----------------------------------------------------------------------------
(* RULES-BASED VALIDATION *)

\* COUNTRY_RULES.get(country): the lookup that does not raise
check_tax_id_lenient(s, c) ==
    LET known == c \in DOMAIN COUNTRY_RULES
        pattern == IF known THEN COUNTRY_RULES[c].tax_id_pattern
                   ELSE "\\b\\d{9}\\b"
        tax_id_name == IF known THEN COUNTRY_RULES[c].tax_id_name
                       ELSE "Tax ID"
        matches == findall(pattern, s)
    IN IF matches # <<>>
       THEN [raised |-> None, passed |-> TRUE,
             message |-> OK_MARK \o " " \o tax_id_name \o " found: "
                         \o Str(matches[1])]
       ELSE [raised |-> None, passed |-> FALSE,
             message |-> X_MARK \o " CRITICAL: Missing " \o tax_id_name
                         \o " (format: " \o pattern \o ")"]

check_tax_id(s, c) ==
    IF c \notin DOMAIN COUNTRY_RULES
    THEN [raised |-> "KeyError", passed |-> FALSE, message |-> ""]
    ELSE LET pattern == COUNTRY_RULES[c].tax_id_pattern
             tax_id_name == COUNTRY_RULES[c].tax_id_name
             matches == findall(pattern, s)
         IN IF matches # <<>>
            THEN [raised |-> None, passed |-> TRUE,
                  message |-> OK_MARK \o " " \o tax_id_name \o " found: "
                              \o Str(matches[1])]
            ELSE [raised |-> None, passed |-> FALSE,
                  message |-> X_MARK \o " CRITICAL: Missing " \o tax_id_name
                              \o " (format: " \o pattern \o ")"]

\* the first term found scanning the text, not the list
check_incoterm_text_order(s) ==
    LET text_upper == upper(s)
        at == {i \in 1..(Len(text_upper) - 2) :
                 \E n \in 1..Len(VALID_INCOTERMS) :
                    SubSeq(text_upper, i, i + 2) = VALID_INCOTERMS[n]}
    IN IF at # {}
       THEN LET b == CHOOSE i \in at : \A j \in at : i <= j
                term == Str(SubSeq(text_upper, b, b + 2))
            IN [passed |-> TRUE,
                message |-> OK_MARK \o " Incoterm found: " \o term,
                term |-> term]
       ELSE [passed |-> FALSE,
             message |-> X_MARK \o " CRITICAL: Missing Incoterm",
             term |-> None]

check_incoterm(s) ==
    LET text_upper == upper(s)
        found_terms == SelectSeq(VALID_INCOTERMS,
                                 LAMBDA term : Contains(text_upper, term))
    IN IF found_terms # <<>>
       THEN [passed |-> TRUE,
             message |-> OK_MARK \o " Incoterm found: " \o Str(found_terms[1]),
             term |-> Str(found_terms[1])]
       ELSE [passed |-> FALSE,
             message |-> X_MARK \o " CRITICAL: Missing Incoterm",
             term |-> None]

check_hs_codes(s) ==
    LET matches == findall(hs_pattern, s)
    IN IF matches # <<>>
       THEN [passed |-> TRUE,
             message |-> OK_MARK \o " HS/NCM codes found: "
                         \o ToString(Len(matches)) \o " items"]
       ELSE [passed |-> FALSE,
             message |-> WARN_MARK \o " WARNING: No HS/NCM codes detected"]

NoResults == [critical_errors |-> <<>>, warnings |-> <<>>,
              passed_checks |-> <<>>]

\* one check's outcome appended to its list: passed_checks when it passed,
\* the list of its tier when it failed
Bucket(results, outcome, tier) ==
    IF outcome.passed
    THEN [results EXCEPT !.passed_checks = Append(@, outcome.message)]
    ELSE [results EXCEPT ![tier] = Append(@, outcome.message)]

\* the HS outcome filed with the critical errors
rules_based_validation_hs_critical(s, c) ==
    LET tax == check_tax_id(s, c)
    IN IF tax.raised # None
       THEN [raised |-> tax.raised, results |-> NoResults]
       ELSE [raised |-> None,
             results |->
                Bucket(Bucket(Bucket(NoResults, tax, "critical_errors"),
                              check_incoterm(s), "critical_errors"),
                       check_hs_codes(s), "critical_errors")]

\* the HS check run before the Incoterm check
rules_based_validation_hs_first(s, c) ==
    LET tax == check_tax_id(s, c)
    IN IF tax.raised # None
       THEN [raised |-> tax.raised, results |-> NoResults]
       ELSE [raised |-> None,
             results |->
                Bucket(Bucket(Bucket(NoResults, tax, "critical_errors"),
                              check_hs_codes(s), "warnings"),
                       check_incoterm(s), "critical_errors")]

\* Tax ID, then Incoterm, then HS codes; an exception of check_tax_id
\* leaves the function before anything is appended
rules_based_validation(s, c) ==
    LET tax == check_tax_id(s, c)
    IN IF tax.raised # None
       THEN [raised |-> tax.raised, results |-> NoResults]
       ELSE [raised |-> None,
             results |->
                Bucket(Bucket(Bucket(NoResults, tax, "critical_errors"),
                              check_incoterm(s), "critical_errors"),
                       check_hs_codes(s), "warnings")]

----------------------------------------------------------------------------
(* AI-POWERED DEEP AUDIT: what the prompt carries *)

PromptCap == 8000

NoPrompt == [country |-> "", critical_errors |-> <<>>, warnings |-> <<>>,
             currency |-> "", text |-> <<>>]

\* the whole text pasted into the prompt
PromptTextUncapped(s) == s

\* text[:8000]
PromptText(s) ==
    IF Len(s) <= PromptCap THEN s ELSE SubSeq(s, 1, PromptCap)

\* the prompt ai_deep_audit builds; the currency lookup raises for a key
\* that is not in the table, before anything is submitted
ai_deep_audit_prompt(s, c, rr) ==
    IF c \notin DOMAIN COUNTRY_RULES
    THEN [raised |-> "KeyError", prompt |-> NoPrompt]
    ELSE [raised |-> None,
          prompt |-> [country |-> c,
                      critical_errors |-> rr.critical_errors,
                      warnings |-> rr.warnings,
                      currency |-> COUNTRY_RULES[c].currency,
                      text |-> PromptText(s)]]

----------------------------------------------------------------------------
(* Summary Score *)

NoVerdict == [kind |-> "None", count |-> 0]

\* warnings looked at before critical errors
VerdictWarningFirst(critical_count, warning_count) ==
    IF critical_count = 0 /\ warning_count = 0
    THEN [kind |-> "Passed", count |-> 0]
    ELSE IF warning_count > 0
         THEN [kind |-> "NeedsReview", count |-> warning_count]
         ELSE [kind |-> "Failed", count |-> critical_count]

Verdict(critical_count, warning_count) ==
    IF critical_count = 0 /\ warning_count = 0
    THEN [kind |-> "Passed", count |-> 0]
    ELSE IF critical_count > 0
         THEN [kind |-> "Failed", count |-> critical_count]
         ELSE [kind |-> "NeedsReview", count |-> warning_count]

\* the banner of a verdict
Banner(v) ==
    CASE v.kind = "Passed" -> <<"success", "t[audit_passed]">>
      [] v.kind = "Failed" ->
            <<"error", "t[audit_failed].format(count="
                       \o ToString(v.count) \o ")">>
      [] v.kind = "NeedsReview" ->
            <<"warning", "t[review_needed].format(count="
                         \o ToString(v.count) \o ")">>

----------------------------------------------------------------------------
(* Export Report *)

TicksPerSecond == 2

\* a number in two digits ('%m', '%d', '%H', '%M', '%S'; '%Y' is the year
\* as it is, without padding)
Pad2(n) == IF n < 10 THEN "0" \o ToString(n) ELSE ToString(n)

\* year, month and day of the z-th day after 1970-01-01
CivilFromDays(z) ==
    LET zz == z + 719468
        era == zz \div 146097
        doe == zz - era * 146097
        yoe == (doe - doe \div 1460 + doe \div 36524 - doe \div 146096)
               \div 365
        doy == doe - (365 * yoe + yoe \div 4 - yoe \div 100)
        mp == (5 * doy + 2) \div 153
        d == doy - (153 * mp + 2) \div 5 + 1
        m == IF mp < 10 THEN mp + 3 ELSE mp - 9
        y == yoe + era * 400 + (IF m <= 2 THEN 1 ELSE 0)
    IN [year |-> y, month |-> m, day |-> d]

\* datetime.now(): a clock reading of t ticks is t / TicksPerSecond seconds
\* after 2026-01-01 00:00:00 (day 20454 after 1970-01-01)
now(t) ==
    LET secs == t \div TicksPerSecond
        date == CivilFromDays(20454 + secs \div 86400)
        rest == secs % 86400
    IN [year |-> date.year, month |-> date.month, day |-> date.day,
        hour |-> rest \div 3600, minute |-> (rest % 3600) \div 60,
        second |-> rest % 60, tick |-> t % TicksPerSecond]

\* datetime.now().strftime('%Y-%m-%d %H:%M:%S') of a clock reading in ticks
strftime(t) ==
    LET n == now(t)
    IN ToString(n.year) \o "-" \o Pad2(n.month) \o "-" \o Pad2(n.day) \o " "
       \o Pad2(n.hour) \o ":" \o Pad2(n.minute) \o ":" \o Pad2(n.second)

\* datetime.now().strftime('%Y%m%d_%H%M%S') of a clock reading in ticks
strftime_file(t) ==
    LET n == now(t)
    IN ToString(n.year) \o Pad2(n.month) \o Pad2(n.day) \o "_"
       \o Pad2(n.hour) \o Pad2(n.minute) \o Pad2(n.second)

NoReport == <<>>

\* the lines of report_text (joined by newlines they are the f-string)
render(c, d, rr, ai, ts) ==
    <<"",
      "LATAM SUPPLY CHAIN WATCHDOG - AUDIT REPORT",
      "Generated: " \o ts,
      "Country: " \o c,
      "Document: " \o d,
      "",
      "=== RULES-BASED VALIDATION ===",
      "Critical Errors: " \o ToString(Len(rr.critical_errors)),
      join(rr.critical_errors),
      "",
      "Warnings: " \o ToString(Len(rr.warnings)),
      join(rr.warnings),
      "",
      "Passed Checks: " \o ToString(Len(rr.passed_checks)),
      join(rr.passed_checks),
      "",
      "=== AI DEEP AUDIT ===",
      ai,
      "">>

----------------------------------------------------------------------------
(* Inputs: documents are built from a few tokens *)

\* a Chilean RUT
RUT_CL == <<"1", "2", ".", "3", "4", "5", ".", "6", "7", "8", "-", "5">>

\* a Brazilian CNPJ
CNPJ_BR == <<"1", "2", ".", "3", "4", "5", ".", "6", "7", "8", "/", "0", "0", "0", "1", "-", "9", "5">>

\* an Argentine CUIT
CUIT_AR == <<"2", "0", "-", "1", "2", "3", "4", "5", "6", "7", "8", "-", "9">>

\* a Spanish NIF
NIF_ES == <<"B", "1", "2", "3", "4", "5", "6", "7", "8">>

\* a Portuguese NIF
NIF_PT == <<"1", "2", "3", "4", "5", "6", "7", "8", "9">>

\* a US EIN, of no profile of the table
EIN_US == <<"1", "2", "-", "3", "4", "5", "6", "7", "8", "9">>

\* an Incoterm in lower case, after a space
CIF_LOWER == <<" ", "c", "i", "f">>

\* an Incoterm, after a space
FCA_TERM == <<" ", "F", "C", "A">>

\* an HS code
HS_CODE == <<"8", "4", "7", "1", ".", "3", "0", ".", "0", "0", "0", "0">>

\* an HS code whose groups a carriage return separates
HS_CR == <<"8", "4", "7", "1", "\r", "3", "0">>

\* "fa" and a sharp s, after a space: its upper case is " FASS"
FAS_SHARP == <<" ", "f", "a", "U+00DF">>

\* a space
BLANK == <<" ">>

Tokens == {RUT_CL, CNPJ_BR, CUIT_AR, NIF_ES, NIF_PT, EIN_US,
           CIF_LOWER, FCA_TERM, FAS_SHARP, HS_CODE, HS_CR, BLANK}

RECURSIVE Concats(_)
\* the concatenations of at most n tokens
Concats(n) ==
    IF n = 0 THEN {<<>>}
    ELSE LET shorter == Concats(n - 1)
         IN shorter \cup {s \o k : s \in shorter, k \in Tokens}

ShortTexts == Concats(MaxTokens)

\* what the pages before a failing page gave
PartialTexts == Concats(MaxTokens - 1)

Pad(n) == [i \in 1..n |-> " "]

\* documents longer than the prompt takes: a tax ID past the cap, an
\* Incoterm across it, an Incoterm past it after an HS code
LongTexts ==
    {Pad(PromptCap) \o RUT_CL,
     Pad(PromptCap - 2) \o FCA_TERM,
     HS_CODE \o Pad(PromptCap) \o CIF_LOWER}

\* the country the long documents are audited for
LongCountries == {"Chile"}

\* the texts of the rendering specification
RenderTexts == {RUT_CL \o FCA_TERM, HS_CODE}

\* the options of the country selectbox
Countries == DOMAIN COUNTRY_RULES

\* the keys the functions are called with: those of the table and two that
\* are not in it
CallCountries == DOMAIN COUNTRY_RULES
                 \cup {"Peru", "United States of America"}

RenderCountries == {"Chile", "Portugal"}

Documents == {"invoice.pdf"}

RenderDocuments == {"invoice.pdf", "factura.pdf"}

\* replies of the reviewer, and the exceptions its call raises
Replies == {"### AI Audit Results", "None detected"}

Failures == {"DeadlineExceeded", "ServiceUnavailable"}

Unbound == "<unbound>"

Clock == 0..MaxClock

NoRender == [made |-> FALSE, tick |-> -1, country |-> "", document |-> "",
             results |-> NoResults, ai_report |-> Unbound,
             lines |-> NoReport]

----------------------------------------------------------------------------
(* The script run *)

Init ==
    /\ pc = "idle"
    /\ text = <<>>
    /\ country = ""
    /\ document = ""
    /\ rules_results = NoResults
    /\ raised = None
    /\ screen = <<>>
    /\ prompt = NoPrompt
    /\ ai_report = Unbound
    /\ ai_failed = FALSE
    /\ verdict = NoVerdict
    /\ generated = -1
    /\ report_text = NoReport
    /\ file_name = ""
    /\ rendered = NoRender

\* a run starts with no name bound and an empty page
Fresh ==
    /\ rules_results' = NoResults
    /\ raised' = None
    /\ screen' = <<>>
    /\ prompt' = NoPrompt
    /\ ai_report' = Unbound
    /\ ai_failed' = FALSE
    /\ verdict' = NoVerdict
    /\ generated' = -1
    /\ report_text' = NoReport
    /\ file_name' = ""

\* a country is selected among the options and a PDF uploaded; its text is
\* extracted and the audit button shown
UploadFrom(T, C, D) ==
    /\ pc = "idle"
    /\ text' \in T
    /\ country' \in C
    /\ document' \in D
    /\ pc' = "ready"
    /\ Fresh
    /\ UNCHANGED rendered

Upload ==
    \/ UploadFrom(ShortTexts, Countries, Documents)
    \/ UploadFrom(LongTexts, LongCountries, Documents)

\* the extraction raises, at the reader or at a page: text holds what the
\* pages before gave, the error is shown above the handler and st.stop
\* ends the run before the audit button
ExtractError ==
    /\ pc = "idle"
    /\ text' \in PartialTexts
    /\ country' \in Countries
    /\ document' \in Documents
    /\ pc' = "stopped"
    /\ Fresh
    /\ UNCHANGED rendered

Items(msgs) == [i \in 1..Len(msgs) |-> <<"markdown", "- " \o msgs[i]>>]

\* Display rules results
Display(rr) ==
    (IF rr.critical_errors # <<>>
     THEN << <<"error", "t[critical_errors]">> >> \o Items(rr.critical_errors)
     ELSE <<>>)
    \o (IF rr.warnings # <<>>
        THEN << <<"warning", "t[warnings]">> >> \o Items(rr.warnings)
        ELSE <<>>)
    \o (IF rr.passed_checks # <<>>
        THEN << <<"success", "t[passed_checks]">> >> \o Items(rr.passed_checks)
        ELSE <<>>)

\* the page of stage 1: heading, findings, separator
Stage1Page(rr) ==
    << <<"markdown", "t[stage1]">> >> \o Display(rr)
    \o << <<"markdown", "---">> >>

\* Stage 1: Rules-Based Validation, and the display of its results (the
\* selected country is a key of the table: the lookup does not raise)
Stage1 ==
    /\ pc = "ready"
    /\ \E v \in {rules_based_validation(text, country)} :
          /\ rules_results' = v.results
          /\ screen' = Stage1Page(v.results)
    /\ pc' = "stage2"
    /\ UNCHANGED <<text, country, document, raised, prompt, ai_report,
                   ai_failed, verdict, generated, report_text, file_name,
                   rendered>>

\* Stage 2: the heading is written, the prompt built and submitted; the run
\* waits for the reviewer
Stage2Submit ==
    /\ pc = "stage2"
    /\ screen' = Append(screen, <<"markdown", "t[stage2]">>)
    /\ prompt' = ai_deep_audit_prompt(text, country, rules_results).prompt
    /\ pc' = "waiting"
    /\ UNCHANGED <<text, country, document, rules_results, raised, ai_report,
                   ai_failed, verdict, generated, report_text, file_name,
                   rendered>>

\* the except branch ends the run
OnReviewErrorStop == "crashed"

\* where the run goes on after the except branch of stage 2
OnReviewError == "summary"

\* Stage 2: the reviewer replies; the reply is bound and shown
Stage2Reply ==
    /\ pc = "waiting"
    /\ \E r \in Replies :
         /\ ai_report' = r
         /\ screen' = Append(screen, <<"markdown", r>>)
    /\ pc' = "summary"
    /\ UNCHANGED <<text, country, document, rules_results, raised, prompt,
                   ai_failed, verdict, generated, report_text, file_name,
                   rendered>>

\* Stage 2: the call raises; the error is shown and ai_report stays unbound
Stage2Fail ==
    /\ pc = "waiting"
    /\ \E e \in Failures :
         screen' = Append(screen, <<"error", "t[ai_error] " \o e>>)
    /\ ai_failed' = TRUE
    /\ pc' = OnReviewError
    /\ UNCHANGED <<text, country, document, rules_results, raised, prompt,
                   ai_report, verdict, generated, report_text, file_name,
                   rendered>>

\* Summary Score
Summary ==
    /\ pc = "summary"
    /\ \E v \in {Verdict(Len(rules_results.critical_errors),
                         Len(rules_results.warnings))} :
          /\ verdict' = v
          /\ screen' = screen \o << <<"markdown", "---">>, Banner(v) >>
    /\ pc' = "export"
    /\ UNCHANGED <<text, country, document, rules_results, raised, prompt,
                   ai_report, ai_failed, generated, report_text, file_name,
                   rendered>>

\* the f-string reads the clock and renders report_text; the arguments of
\* the download button read the clock again for the file name
RenderReport(K) ==
    /\ \E t \in K :
         /\ generated' = t
         /\ report_text' = render(country, document, rules_results,
                                  ai_report, strftime(t))
    /\ \E u \in K :
         file_name' = "audit_report_" \o strftime_file(u) \o ".txt"

\* Export Report: the separator is written, then the report rendered (a
\* NameError when ai_report is unbound), then the download button shown
ExportAt(K) ==
    /\ pc = "export"
    /\ IF ai_report = Unbound
       THEN /\ pc' = "crashed"
            /\ raised' = "NameError"
            /\ screen' = Append(screen, <<"markdown", "---">>)
            /\ UNCHANGED <<generated, report_text, file_name>>
       ELSE /\ RenderReport(K)
            /\ screen' = screen \o << <<"markdown", "---">>,
                                      <<"download_button",
                                        "t[download_report]">> >>
            /\ pc' = "done"
            /\ UNCHANGED raised
    /\ UNCHANGED <<text, country, document, rules_results, prompt, ai_report,
                   ai_failed, verdict>>

Export == ExportAt(Clock) /\ UNCHANGED rendered

\* A stop or a rerun is requested while the handler runs: the run ends at
\* its next write to the page or entry or exit of a spinner, which is not
\* made, with an exception that "except Exception" does not catch.  What
\* is bound and written before stays.  (A stop at the entry of the outer
\* spinner is the stop at the heading of stage 1; one at the exit of the
\* inner spinner after the reply is shown is the stop at the separator of
\* the summary.)

\* the run ends at a write of stage 1: at the heading nothing is bound yet,
\* at a later write rules_results is, and the writes before it are made
InterruptStage1 ==
    /\ pc = "ready"
    /\ \E rr \in {rules_based_validation(text, country).results} :
         \E k \in 1..Len(Stage1Page(rr)) :
            /\ screen' = SubSeq(Stage1Page(rr), 1, k - 1)
            /\ rules_results' = IF k = 1 THEN NoResults ELSE rr
    /\ pc' = "stopped"
    /\ UNCHANGED <<text, country, document, raised, prompt, ai_report,
                   ai_failed, verdict, generated, report_text, file_name,
                   rendered>>

\* the run ends at the heading of stage 2, or at the entry of the inner
\* spinner, the heading written and nothing submitted; or, requested while
\* the run waits for the reviewer: at the write of the reply, already
\* bound; at the exit of the spinner as the exception of the call leaves
\* it, the except branch not entered; or at the write of the error, in the
\* except branch
InterruptStage2 ==
    /\ \/ /\ pc = "stage2"
          /\ \/ UNCHANGED screen
             \/ screen' = Append(screen, <<"markdown", "t[stage2]">>)
          /\ UNCHANGED <<ai_report, ai_failed>>
       \/ /\ pc = "waiting"
          /\ \/ \E r \in Replies : ai_report' = r /\ UNCHANGED ai_failed
             \/ UNCHANGED <<ai_report, ai_failed>>
             \/ ai_failed' = TRUE /\ UNCHANGED ai_report
          /\ UNCHANGED screen
    /\ pc' = "stopped"
    /\ UNCHANGED <<text, country, document, rules_results, raised, prompt,
                   verdict, generated, report_text, file_name, rendered>>

\* the run ends at the separator of the summary, or at the banner, the
\* separator written
InterruptSummary ==
    /\ pc = "summary"
    /\ \/ UNCHANGED screen
       \/ screen' = Append(screen, <<"markdown", "---">>)
    /\ pc' = "stopped"
    /\ UNCHANGED <<text, country, document, rules_results, raised, prompt,
                   ai_report, ai_failed, verdict, generated, report_text,
                   file_name, rendered>>

\* the run ends at the separator of the export; or at the download button,
\* the separator written, the report rendered and the file name made; or
\* as the outer spinner is left, after the button is shown or as the
\* NameError leaves it
InterruptExportAt(K) ==
    /\ pc = "export"
    /\ \/ UNCHANGED <<screen, generated, report_text, file_name>>
       \/ /\ ai_report # Unbound
          /\ RenderReport(K)
          /\ \/ screen' = Append(screen, <<"markdown", "---">>)
             \/ screen' = screen \o << <<"markdown", "---">>,
                                       <<"download_button",
                                         "t[download_report]">> >>
       \/ /\ ai_report = Unbound
          /\ screen' = Append(screen, <<"markdown", "---">>)
          /\ UNCHANGED <<generated, report_text, file_name>>
    /\ pc' = "stopped"
    /\ UNCHANGED <<text, country, document, rules_results, raised, prompt,
                   ai_report, ai_failed, verdict, rendered>>

InterruptExport == InterruptExportAt(Clock)

Interrupt ==
    \/ InterruptStage1
    \/ InterruptStage2
    \/ InterruptSummary
    \/ InterruptExport

\* the script runs again: the next run starts from nothing
Rerun ==
    /\ pc \in {"done", "crashed", "stopped"}
    /\ pc' = "idle"
    /\ text' = <<>>
    /\ country' = ""
    /\ document' = ""
    /\ Fresh
    /\ UNCHANGED rendered

Next ==
    \/ Upload
    \/ ExtractError
    \/ Stage1
    \/ Stage2Submit
    \/ Stage2Reply
    \/ Stage2Fail
    \/ Summary
    \/ Export
    \/ Interrupt
    \/ Rerun

Spec == Init /\ [][Next]_vars

----------------------------------------------------------------------------
(* The rendering specification: the same run over a few documents, with    *)
(* the report of the run before kept beside the one being made.            *)

UploadRender == UploadFrom(RenderTexts, RenderCountries, RenderDocuments)

\* the script runs again; a finished report is remembered with what it was
\* made of
RerunRecorded ==
    /\ pc \in {"done", "crashed", "stopped"}
    /\ pc' = "idle"
    /\ text' = <<>>
    /\ country' = ""
    /\ document' = ""
    /\ Fresh
    /\ rendered' = IF pc = "done"
                   THEN [made |-> TRUE, tick |-> generated,
                         country |-> country, document |-> document,
                         results |-> rules_results, ai_report |-> ai_report,
                         lines |-> report_text]
                   ELSE rendered

NextRender ==
    \/ UploadRender
    \/ ExtractError
    \/ Stage1
    \/ Stage2Submit
    \/ Stage2Reply
    \/ Stage2Fail
    \/ Summary
    \/ Export
    \/ Interrupt
    \/ RerunRecorded

SpecRender == Init /\ [][NextRender]_vars

----------------------------------------------------------------------------
(* The functions called on their own, with any key: rules_based_validation *)
(* and ai_deep_audit (up to the submission of its prompt), as a caller     *)
(* other than the page would call them.                                    *)

\* a caller picks a text and a key
CallWith ==
    /\ pc = "idle"
    /\ text' \in ShortTexts
    /\ country' \in CallCountries
    /\ pc' = "called"
    /\ Fresh
    /\ UNCHANGED <<document, rendered>>

\* rules_based_validation(text, country): it returns the dict, or the
\* lookup of check_tax_id raises
Validate ==
    /\ pc = "called"
    /\ \E v \in {rules_based_validation(text, country)} :
          IF v.raised # None
          THEN /\ pc' = "raised"
               /\ raised' = v.raised
               /\ UNCHANGED rules_results
          ELSE /\ pc' = "returned"
               /\ rules_results' = v.results
               /\ UNCHANGED raised
    /\ UNCHANGED <<text, country, document, screen, prompt, ai_report,
                   ai_failed, verdict, generated, report_text, file_name,
                   rendered>>

\* ai_deep_audit(text, country, rules_results), with the dict returned or,
\* called first, with empty lists: the prompt is submitted, or the lookup
\* of the currency raises
Review ==
    /\ pc \in {"called", "returned"}
    /\ \E p \in {ai_deep_audit_prompt(text, country, rules_results)} :
          IF p.raised # None
          THEN /\ pc' = "raised"
               /\ raised' = p.raised
               /\ UNCHANGED prompt
          ELSE /\ pc' = "reviewed"
               /\ prompt' = p.prompt
               /\ UNCHANGED raised
    /\ UNCHANGED <<text, country, document, rules_results, screen, ai_report,
                   ai_failed, verdict, generated, report_text, file_name,
                   rendered>>

\* the caller is done with the result
Return ==
    /\ pc \in {"raised", "returned", "reviewed"}
    /\ pc' = "idle"
    /\ text' = <<>>
    /\ country' = ""
    /\ Fresh
    /\ UNCHANGED <<document, rendered>>

NextCall ==
    \/ CallWith
    \/ Validate
    \/ Review
    \/ Return

SpecCall == Init /\ [][NextCall]_vars

----------------------------------------------------------------------------
(* Properties *)

Range(q) == {q[i] : i \in DOMAIN q}

critical_count == Len(rules_results.critical_errors)
warning_count == Len(rules_results.warnings)
passed_count == Len(rules_results.passed_checks)

Validated == rules_results # NoResults

\* C1: once the summary has run, the verdict is Failed(critical count) when
\* there is a critical error, whatever the warnings; NeedsReview(warning
\* count) when there is none but a warning; Passed when there is neither;
\* and a run that reaches the export has one of the three.
VerdictCriticalDominant ==
    /\ pc \in {"export", "done"} => verdict # NoVerdict
    /\ verdict # NoVerdict =>
        /\ verdict.kind \in {"Passed", "Failed", "NeedsReview"}
        /\ critical_count > 0 =>
              verdict = [kind |-> "Failed", count |-> critical_count]
        /\ (critical_count = 0 /\ warning_count > 0) =>
              verdict = [kind |-> "NeedsReview", count |-> warning_count]
        /\ (critical_count = 0 /\ warning_count = 0) =>
              verdict = [kind |-> "Passed", count |-> 0]

\* a report with critical errors and a warning, judged Failed
VerdictWitness ==
    /\ verdict.kind = "Failed"
    /\ critical_count = 2
    /\ warning_count = 1

\* C2: when the reviewer's call raises, the run goes on: the findings stay
\* on the page as stage 1 wrote them, they are those of the document and
\* country alone, and the summary then shows the verdict of their counts.
ReviewFailureKeepsRulesVerdict ==
    ai_failed =>
        /\ Validated
        /\ rules_results = rules_based_validation(text, country).results
        /\ SubSeq(screen, 1, Len(Display(rules_results)) + 2)
             = << <<"markdown", "t[stage1]">> >> \o Display(rules_results)
               \o << <<"markdown", "---">> >>
        /\ pc \in {"summary", "export", "crashed", "stopped"}
        /\ pc \in {"export", "crashed"} =>
              /\ verdict = Verdict(critical_count, warning_count)
              /\ Banner(verdict) \in Range(screen)

\* the call raised, and the verdict was still shown
ReviewFailureWitness ==
    /\ ai_failed
    /\ pc = "export"
    /\ verdict.kind = "NeedsReview"
    /\ Banner(verdict) \in Range(screen)

IsBlank(s) == \A i \in 1..Len(s) : s[i] \in Space

\* C3: a run over a document with text in it that passed validation ends
\* with a rendered report, also when the reviewer's call raised.
ReportRenderedAfterReviewFailure ==
    (Validated /\ ~IsBlank(text) /\ pc \in {"done", "crashed"}) =>
        /\ pc = "done"
        /\ report_text # NoReport

\* the audit handler has run stage 1 on the extracted text
Audited == pc \in {"stage2", "waiting", "summary", "export", "done",
                   "crashed"}

\* C4: an audit of an empty or whitespace-only text is refused with
\* EmptyDocument: no report, nothing of the checks on the page, no verdict.
EmptyDocumentRejected ==
    (IsBlank(text) /\ Audited) =>
        /\ raised = "EmptyDocument"
        /\ ~Validated
        /\ verdict = NoVerdict

\* C5: a call for a key that is not in the table ends with the lookup's
\* error, in rules_based_validation before anything is appended to a list
\* and in ai_deep_audit before anything is submitted: no dict is returned,
\* nothing is displayed, no verdict derived, no report rendered.
UnknownCountryRejected ==
    (country \notin DOMAIN COUNTRY_RULES /\ pc \notin {"idle", "called"}) =>
        /\ pc = "raised"
        /\ raised = "KeyError"
        /\ rules_results = NoResults
        /\ screen = <<>>
        /\ prompt = NoPrompt
        /\ verdict = NoVerdict
        /\ report_text = NoReport

UnknownCountryWitness ==
    /\ country = "Peru"
    /\ text = RUT_CL \o FCA_TERM
    /\ pc = "raised"
    /\ raised = "KeyError"

\* C6: for a country of the catalog validation does not raise, and each
\* outcome is in the list of its tier: a failed tax ID or Incoterm check in
\* critical_errors, a failed HS check in warnings, a passed check in
\* passed_checks; no tax ID or Incoterm message is among the warnings and
\* no HS message among the critical errors.
OutcomesBucketedByTier ==
    /\ pc \in {"stage2", "waiting", "summary", "export", "done", "crashed"}
         =>
          (country \in DOMAIN COUNTRY_RULES /\ Validated
           /\ raised # "KeyError")
    /\ pc = "stage2" =>
          \E tax \in {check_tax_id(text, country).message},
             inc \in {check_incoterm(text).message},
             hs \in {check_hs_codes(text).message} :
             /\ tax \in Range(IF check_tax_id(text, country).passed
                              THEN rules_results.passed_checks
                              ELSE rules_results.critical_errors)
             /\ inc \in Range(IF check_incoterm(text).passed
                              THEN rules_results.passed_checks
                              ELSE rules_results.critical_errors)
             /\ hs \in Range(IF check_hs_codes(text).passed
                             THEN rules_results.passed_checks
                             ELSE rules_results.warnings)
             /\ tax \notin Range(rules_results.warnings)
             /\ inc \notin Range(rules_results.warnings)
             /\ hs \notin Range(rules_results.critical_errors)

\* one message in each list: the tax ID missing, the Incoterm found, no HS
\* code
BucketsWitness ==
    /\ pc = "stage2"
    /\ ~check_tax_id(text, country).passed
    /\ check_incoterm(text).passed
    /\ ~check_hs_codes(text).passed
    /\ critical_count = 1 /\ warning_count = 1 /\ passed_count = 1

\* the messages of the outcomes that passed (or failed), in their order
Picked(outcomes, passed) ==
    LET kept == SelectSeq(outcomes, LAMBDA o : o[1] = passed)
    IN [i \in 1..Len(kept) |-> kept[i][2]]

\* C7: every report, of a first run or a later one, holds three messages,
\* one for each check: the failed ones of tax ID and Incoterm, in that
\* order, are the critical errors, the failed HS check is the warning, and
\* the passed ones, in the order tax ID, Incoterm, HS codes, are the passed
\* checks.
ThreeMessagesInCheckOrder ==
    pc = "stage2" =>
        \E tax \in {check_tax_id(text, country)},
           inc \in {check_incoterm(text)},
           hs \in {check_hs_codes(text)} :
           /\ critical_count + warning_count + passed_count = 3
           /\ critical_count <= 2 /\ warning_count <= 1 /\ passed_count <= 3
           /\ rules_results.critical_errors
                = Picked(<< <<tax.passed, tax.message>>,
                            <<inc.passed, inc.message>> >>, FALSE)
           /\ rules_results.warnings
                = Picked(<< <<hs.passed, hs.message>> >>, FALSE)
           /\ rules_results.passed_checks
                = Picked(<< <<tax.passed, tax.message>>,
                            <<inc.passed, inc.message>>,
                            <<hs.passed, hs.message>> >>, TRUE)

\* a report whose passed checks are the Incoterm and, after it, the HS codes
CheckOrderWitness ==
    /\ pc = "stage2"
    /\ critical_count = 1
    /\ rules_results.passed_checks
         = <<check_incoterm(text).message, check_hs_codes(text).message>>

\* the lines a report is to have
Layout(c, d, rr, ai, ts, lines) ==
    /\ Len(lines) = 19
    /\ lines[1] = "" /\ lines[6] = "" /\ lines[10] = "" /\ lines[13] = ""
    /\ lines[16] = "" /\ lines[19] = ""
    /\ lines[2] = "LATAM SUPPLY CHAIN WATCHDOG - AUDIT REPORT"
    /\ lines[3] = "Generated: " \o ts
    /\ lines[4] = "Country: " \o c
    /\ lines[5] = "Document: " \o d
    /\ lines[7] = "=== RULES-BASED VALIDATION ==="
    /\ lines[8] = "Critical Errors: " \o ToString(Len(rr.critical_errors))
    /\ lines[9] = join(rr.critical_errors)
    /\ lines[11] = "Warnings: " \o ToString(Len(rr.warnings))
    /\ lines[12] = join(rr.warnings)
    /\ lines[14] = "Passed Checks: " \o ToString(Len(rr.passed_checks))
    /\ lines[15] = join(rr.passed_checks)
    /\ lines[17] = "=== AI DEEP AUDIT ==="
    /\ lines[18] = ai

\* C8: a finished report has the header first, then each count before its
\* list, then the reviewer's reply as it came; and a report made of the
\* same country, document, findings and reply as the report of the run
\* before is the same text, whenever the two were made.
RenderIsPure ==
    pc = "done" =>
        /\ Layout(country, document, rules_results, ai_report,
                  strftime(generated), report_text)
        /\ (/\ rendered.made
            /\ rendered.country = country
            /\ rendered.document = document
            /\ rendered.results = rules_results
            /\ rendered.ai_report = ai_report)
           => rendered.lines = report_text

\* C9: the text sent to the reviewer is the first PromptCap characters of
\* the document, the whole of it when it is no longer than that; the
\* findings sent and kept (looked at as the call returns) are those of the
\* checks over the whole document.
PromptIsCappedPrefix ==
    prompt # NoPrompt =>
        /\ Len(prompt.text) <= PromptCap
        /\ Len(text) <= PromptCap => prompt.text = text
        /\ Len(text) > PromptCap =>
              prompt.text = SubSeq(text, 1, PromptCap)
        /\ prompt.critical_errors = rules_results.critical_errors
        /\ prompt.warnings = rules_results.warnings
        /\ pc = "summary" =>
              /\ check_tax_id(text, country).message
                   \in Range(rules_results.critical_errors)
                       \cup Range(rules_results.passed_checks)
              /\ check_incoterm(text).message
                   \in Range(rules_results.critical_errors)
                       \cup Range(rules_results.passed_checks)

\* a document longer than the cap whose tax ID lies past it: the prompt is
\* cut, the tax ID is found all the same
PromptWitness ==
    /\ prompt # NoPrompt
    /\ Len(text) > PromptCap
    /\ Len(prompt.text) = PromptCap
    /\ ~check_tax_id(prompt.text, country).passed
    /\ check_tax_id(text, country).message
         \in Range(rules_results.passed_checks)

\* the places of the list whose term is in the upper-cased text
TermsPresent(s) ==
    {n \in 1..Len(VALID_INCOTERMS) : Contains(upper(s), VALID_INCOTERMS[n])}

\* C10: the Incoterm check passes exactly when a term of the list is in
\* the upper-cased text, and reports the one that is first in the list,
\* wherever the terms stand in the text; with none, the critical failure
\* and no term.
IncotermFirstInListOrder ==
    pc = "stage2" =>
        \E present \in {TermsPresent(text)}, inc \in {check_incoterm(text)} :
           IF present = {}
           THEN /\ ~inc.passed
                /\ inc.term = None
                /\ inc.message = X_MARK \o " CRITICAL: Missing Incoterm"
                /\ inc.message \in Range(rules_results.critical_errors)
           ELSE \E n \in present :
                   /\ \A m \in present : n <= m
                   /\ inc.passed
                   /\ inc.term = Str(VALID_INCOTERMS[n])
                   /\ inc.message = OK_MARK \o " Incoterm found: "
                                    \o Str(VALID_INCOTERMS[n])
                   /\ inc.message \in Range(rules_results.passed_checks)

\* "cif" stands before "FCA" in the text; FCA, earlier in the list, is
\* reported
IncotermWitness ==
    /\ pc = "stage2"
    /\ text = CIF_LOWER \o FCA_TERM
    /\ check_incoterm(text).term = "FCA"
    /\ (OK_MARK \o " Incoterm found: FCA")
          \in Range(rules_results.passed_checks)

============================================================================
